---- MODULE Spec2Model ----
(***************************************************************************)
(* NeuroFlow io module: save / load of a Transform model through bincode   *)
(* and the file system (src/src/io/mod.rs).                                *)
(*                                                                         *)
(* A call is modelled statement by statement: every thread has a program   *)
(* position pc, the files are a function from path to content, and the     *)
(* environment may make File::create, File::open, a read or a write fail.  *)
(***************************************************************************)
EXTENDS Integers, Sequences, FiniteSets, TLC

\* ------------------------------------------------------------------ bounds
\* longest parameter vector a caller's model holds
MaxParams == 1
\* largest parameter byte a caller's model holds
MaxByte == 1

\* --------------------------------------------------------------- constants
\* bincode writes a container length as a little-endian u64
U64Bytes == 8
\* stands for every u64 value of 256 or more: no file of the model is that long
Huge == 256
\* marker values of the Transform hooks
Fresh == 0
PreSave == 1
PostLoad == 2

Threads == {1, 2}
Paths == {"test.flow", "test.nn"}
\* a call that ignores file_path and works on one fixed path
PathOfFixed(t) == "test.flow"
\* the path a thread passes as file_path
PathOf(t) == IF t = 1 THEN "test.flow" ELSE "test.nn"

\* model types: two Transform types of different field order, "FeedForward" and
\* "Legacy", that load can be asked for, and "Opaque", a type whose Serialize
\* implementation reports an error
LoadKinds == {"FeedForward", "Legacy"}

Bytes == 0..MaxByte
ParamSeqs == UNION {[1..n -> Bytes] : n \in 0..MaxParams}

\* value of the transient (serde-skipped) field that `after` rebuilds
Derive(params) == Len(params) + 1

NoModel == [kind |-> "none", params |-> <<>>, marker |-> Fresh, cache |-> 0]
MkModel(k, ps, mk) == [kind |-> k, params |-> ps, marker |-> mk, cache |-> Derive(ps)]

\* the models a caller may hold when it calls save
Models ==
    {MkModel(k, ps, mk) : k \in LoadKinds, ps \in ParamSeqs, mk \in {Fresh, PostLoad}}
        \cup {MkModel("Opaque", <<>>, Fresh)}
\* the models and the load types of the two-thread specification
ParModels ==
    {MkModel("FeedForward", <<0>>, Fresh), MkModel("Opaque", <<>>, Fresh)}
ParKinds == {"FeedForward", "Legacy"}

\* ------------------------------------------------------- Transform hooks
before(m) == [m EXCEPT !.marker = PreSave, !.cache = 0]
after(m) == [m EXCEPT !.marker = PostLoad, !.cache = Derive(m.params)]

\* ------------------------------------------------------------ bincode
Zeros(n) == [i \in 1..n |-> 0]
\* little-endian u64 of a value below 256
EncodeU64(n) == <<n>> \o Zeros(U64Bytes - 1)
\* Vec<u8>: length prefix, then the elements
EncodeVec(ps) == EncodeU64(Len(ps)) \o ps

\* serialize(obj, Infinite): fields in declaration order; cache is skipped
serialize(m) ==
    CASE m.kind = "FeedForward" ->
            [ok |-> TRUE, bytes |-> EncodeVec(m.params) \o <<m.marker>>]
      [] m.kind = "Legacy" ->
            [ok |-> TRUE, bytes |-> <<m.marker>> \o EncodeVec(m.params)]
      [] OTHER -> [ok |-> FALSE, bytes |-> <<>>]

\* reading from a byte stream at a cursor: the value and the next cursor
Eof == [ok |-> FALSE, val |-> 0, seq |-> <<>>, next |-> 0]
ReadU8(bs, pos) ==
    IF pos > Len(bs) THEN Eof
    ELSE [ok |-> TRUE, val |-> bs[pos], seq |-> <<>>, next |-> pos + 1]
ReadU64(bs, pos) ==
    IF pos + U64Bytes - 1 > Len(bs) THEN Eof
    ELSE [ok |-> TRUE,
          val |-> IF \A i \in 1..(U64Bytes - 1) : bs[pos + i] = 0 THEN bs[pos] ELSE Huge,
          seq |-> <<>>, next |-> pos + U64Bytes]
ReadVec(bs, pos) ==
    LET n == ReadU64(bs, pos) IN
    IF ~n.ok THEN Eof
    ELSE IF n.next + n.val - 1 > Len(bs) THEN Eof
    ELSE [ok |-> TRUE, val |-> n.val,
          seq |-> SubSeq(bs, n.next, n.next + n.val - 1), next |-> n.next + n.val]

DecodeErr == [ok |-> FALSE, val |-> NoModel]
\* a decoder that answers a short or malformed stream with a default value
deserialize_lenient(T, bs) == [ok |-> TRUE, val |-> [NoModel EXCEPT !.kind = T]]
\* deserialize_from::<T>(reader, Infinite): reads the fields of T in order,
\* leaves whatever follows unread, gives a skipped field its Default
deserialize_from(T, bs) ==
    CASE T = "FeedForward" ->
            LET v == ReadVec(bs, 1) IN
            IF ~v.ok THEN DecodeErr
            ELSE LET mk == ReadU8(bs, v.next) IN
                 IF ~mk.ok THEN DecodeErr
                 ELSE [ok |-> TRUE,
                       val |-> [kind |-> T, params |-> v.seq, marker |-> mk.val, cache |-> 0]]
      [] T = "Legacy" ->
            LET mk == ReadU8(bs, 1) IN
            IF ~mk.ok THEN DecodeErr
            ELSE LET v == ReadVec(bs, mk.next) IN
                 IF ~v.ok THEN DecodeErr
                 ELSE [ok |-> TRUE,
                       val |-> [kind |-> T, params |-> v.seq, marker |-> mk.val, cache |-> 0]]
      [] OTHER -> DecodeErr

\* ------------------------------------------------------------ results
NoResult == [kind |-> "none", val |-> NoModel]
Ok(v) == [kind |-> "Ok", val |-> v]
ErrIO == [kind |-> "IO", val |-> NoModel]
ErrEncoding == [kind |-> "Encoding", val |-> NoModel]

\* ------------------------------------------------------------ files
Absent == [exists |-> FALSE, data |-> <<>>]
FileOf(bs) == [exists |-> TRUE, data |-> bs]
\* a length prefix of 2 followed by a single byte: a truncated stream
Garbage == EncodeU64(2) \o <<1>>
InitFiles == {Absent, FileOf(Garbage)}

\* an open for writing that does not truncate what is there
CreateKeep(fs, path) == IF fs[path].exists THEN fs ELSE [fs EXCEPT ![path] = FileOf(<<>>)]
\* File::create: the file exists afterwards and is empty
CreateFile(fs, path) == [fs EXCEPT ![path] = FileOf(<<>>)]
\* a single write() that stops one byte short and is taken for complete
WriteBytesShort(old, bs) ==
    IF bs = <<>> THEN old ELSE SubSeq(bs, 1, Len(bs) - 1) \o SubSeq(old, Len(bs), Len(old))
\* a write of bs through a handle positioned at offset 0
WriteBytes(old, bs) == bs \o SubSeq(old, Len(bs) + 1, Len(old))
WriteFile(fs, path, bs) == [fs EXCEPT ![path] = FileOf(WriteBytes(fs[path].data, bs))]
\* a handle that is forgotten instead of dropped
LeakFile(h) == h
\* a File or a Vec<u8> that goes out of scope
DropFile(h) == "closed"
DropBuf(b) == <<>>

\* ------------------------------------------------------------ state
VARIABLES
    files,      \* path -> content of the file system
    pc,         \* thread -> statement the thread's call is at ("idle": no call)
    op,         \* thread -> "save" / "load" of the current or the last call
    kind,       \* thread -> the type T of load::<T>
    obj,        \* thread -> the caller's model, borrowed mutably by save
    file,       \* thread -> the call's file handle
    encoded,    \* thread -> the call's byte buffer
    nn,         \* thread -> the value load has decoded
    result,     \* thread -> what the last call returned
    fault,      \* thread -> the environment failure the call met
    log,        \* thread -> the statements the call has executed, in order
    orig,       \* thread -> the model as the caller passed it to save
    file0,      \* thread -> the file as the call found it
    saved,      \* path -> the model of the save that last returned Ok there
    overlap     \* thread -> the call ran while another thread's call was running

vars == <<files, pc, op, kind, obj, file, encoded, nn, result, fault, log,
          orig, file0, saved, overlap>>

Init ==
    /\ files \in [Paths -> InitFiles]
    /\ pc = [t \in Threads |-> "idle"]
    /\ op = [t \in Threads |-> "none"]
    /\ kind = [t \in Threads |-> "none"]
    /\ obj = [t \in Threads |-> NoModel]
    /\ file = [t \in Threads |-> "closed"]
    /\ encoded = [t \in Threads |-> <<>>]
    /\ nn = [t \in Threads |-> NoModel]
    /\ result = [t \in Threads |-> NoResult]
    /\ fault = [t \in Threads |-> "none"]
    /\ log = [t \in Threads |-> <<>>]
    /\ orig = [t \in Threads |-> NoModel]
    /\ file0 = [t \in Threads |-> Absent]
    /\ saved = [p \in Paths |-> NoModel]
    /\ overlap = [t \in Threads |-> FALSE]

\* ------------------------------------------------------------ save
\* the caller invokes save(&mut m, file_path)
SaveCall(t, m) ==
    /\ pc[t] = "idle"
    /\ pc' = [pc EXCEPT ![t] = "create"]
    /\ op' = [op EXCEPT ![t] = "save"]
    /\ kind' = [kind EXCEPT ![t] = m.kind]
    /\ obj' = [obj EXCEPT ![t] = m]
    /\ orig' = [orig EXCEPT ![t] = m]
    /\ file0' = [file0 EXCEPT ![t] = files[PathOf(t)]]
    /\ result' = [result EXCEPT ![t] = NoResult]
    /\ fault' = [fault EXCEPT ![t] = "none"]
    /\ log' = [log EXCEPT ![t] = <<>>]
    /\ UNCHANGED <<files, file, encoded, nn, saved>>

\* the hook run ahead of File::create
SaveCreateHookFirst(t) ==
    /\ pc[t] = "create"
    /\ log' = [log EXCEPT ![t] = Append(@, "create")]
    /\ obj' = [obj EXCEPT ![t] = before(@)]
    /\ \/ /\ files' = CreateFile(files, PathOf(t))
          /\ saved' = [saved EXCEPT ![PathOf(t)] = NoModel]
          /\ file' = [file EXCEPT ![t] = "open"]
          /\ pc' = [pc EXCEPT ![t] = "before"]
          /\ UNCHANGED <<result, fault, file0>>
       \/ /\ fault' = [fault EXCEPT ![t] = "create"]
          /\ result' = [result EXCEPT ![t] = ErrIO]
          /\ pc' = [pc EXCEPT ![t] = "idle"]
          /\ UNCHANGED <<files, saved, file, file0>>
    /\ UNCHANGED <<op, kind, encoded, nn, orig>>

\* let mut file = File::create(file_path).map_err(ErrorKind::IO)?;
SaveCreate(t) ==
    /\ pc[t] = "create"
    /\ log' = [log EXCEPT ![t] = Append(@, "create")]
    /\ \/ /\ files' = CreateFile(files, PathOf(t))
          /\ saved' = [saved EXCEPT ![PathOf(t)] = NoModel]
          /\ file' = [file EXCEPT ![t] = "open"]
          /\ pc' = [pc EXCEPT ![t] = "before"]
          /\ UNCHANGED <<result, fault, file0>>
       \/ /\ fault' = [fault EXCEPT ![t] = "create"]
          /\ result' = [result EXCEPT ![t] = ErrIO]
          /\ pc' = [pc EXCEPT ![t] = "idle"]
          /\ UNCHANGED <<files, saved, file, file0>>
    /\ UNCHANGED <<op, kind, obj, encoded, nn, orig>>

\* a save that forgets the hook
SaveBeforeSkipped(t) ==
    /\ pc[t] = "before"
    /\ pc' = [pc EXCEPT ![t] = "serialize"]
    /\ UNCHANGED <<files, op, kind, obj, file, encoded, nn, result, fault, log, orig,
                   file0, saved>>

\* obj.before();
SaveBefore(t) ==
    /\ pc[t] = "before"
    /\ log' = [log EXCEPT ![t] = Append(@, "before")]
    /\ obj' = [obj EXCEPT ![t] = before(@)]
    /\ pc' = [pc EXCEPT ![t] = "serialize"]
    /\ UNCHANGED <<files, op, kind, file, encoded, nn, result, fault, orig, file0, saved>>

\* serialize_into(&mut file, ..): the encoder streams into the file, and a
\* failing encoder has already written what it produced
SaveSerializeInto(t) ==
    /\ pc[t] = "serialize"
    /\ log' = [log EXCEPT ![t] = Append(@, "serialize")]
    /\ LET r == serialize(obj[t]) IN
       IF r.ok
       THEN /\ encoded' = [encoded EXCEPT ![t] = r.bytes]
            /\ pc' = [pc EXCEPT ![t] = "write"]
            /\ UNCHANGED <<result, file, files>>
       ELSE /\ result' = [result EXCEPT ![t] = ErrEncoding]
            /\ files' = WriteFile(files, PathOf(t), EncodeU64(Len(obj[t].params)))
            /\ file' = [file EXCEPT ![t] = DropFile(@)]
            /\ pc' = [pc EXCEPT ![t] = "idle"]
            /\ UNCHANGED encoded
    /\ UNCHANGED <<op, kind, obj, nn, fault, orig, file0, saved>>

\* let encoded: Vec<u8> = serialize(obj, Infinite).map_err(ErrorKind::Encoding)?;
SaveSerialize(t) ==
    /\ pc[t] = "serialize"
    /\ log' = [log EXCEPT ![t] = Append(@, "serialize")]
    /\ LET r == serialize(obj[t]) IN
       IF r.ok
       THEN /\ encoded' = [encoded EXCEPT ![t] = r.bytes]
            /\ pc' = [pc EXCEPT ![t] = "write"]
            /\ UNCHANGED <<result, file>>
       ELSE /\ result' = [result EXCEPT ![t] = ErrEncoding]
            /\ file' = [file EXCEPT ![t] = DropFile(@)]
            /\ pc' = [pc EXCEPT ![t] = "idle"]
            /\ UNCHANGED encoded
    /\ UNCHANGED <<files, op, kind, obj, nn, fault, orig, file0, saved>>

\* file.write_all(&encoded).map_err(ErrorKind::IO)?;
\* a failing write_all has written some proper prefix of the buffer
SaveWrite(t) ==
    /\ pc[t] = "write"
    /\ log' = [log EXCEPT ![t] = Append(@, "write")]
    /\ \/ /\ files' = WriteFile(files, PathOf(t), encoded[t])
          /\ pc' = [pc EXCEPT ![t] = "return"]
          /\ UNCHANGED <<result, fault, file, encoded>>
       \/ \E k \in 0..(Len(encoded[t]) - 1) :
            /\ files' = WriteFile(files, PathOf(t), SubSeq(encoded[t], 1, k))
            /\ fault' = [fault EXCEPT ![t] = "write"]
            /\ result' = [result EXCEPT ![t] = ErrIO]
            /\ file' = [file EXCEPT ![t] = DropFile(@)]
            /\ encoded' = [encoded EXCEPT ![t] = DropBuf(@)]
            /\ pc' = [pc EXCEPT ![t] = "idle"]
    /\ UNCHANGED <<op, kind, obj, nn, orig, file0, saved>>

\* Ok(())
SaveReturn(t) ==
    /\ pc[t] = "return"
    /\ op[t] = "save"
    /\ log' = [log EXCEPT ![t] = Append(@, "return")]
    /\ result' = [result EXCEPT ![t] = Ok(NoModel)]
    /\ saved' = [saved EXCEPT ![PathOf(t)] = orig[t]]
    /\ file' = [file EXCEPT ![t] = DropFile(@)]
    /\ encoded' = [encoded EXCEPT ![t] = DropBuf(@)]
    /\ pc' = [pc EXCEPT ![t] = "idle"]
    /\ UNCHANGED <<files, op, kind, obj, nn, fault, orig, file0>>

\* ------------------------------------------------------------ load
\* the caller invokes load::<T>(file_path)
LoadCall(t, T) ==
    /\ pc[t] = "idle"
    /\ pc' = [pc EXCEPT ![t] = "open"]
    /\ op' = [op EXCEPT ![t] = "load"]
    /\ kind' = [kind EXCEPT ![t] = T]
    /\ obj' = [obj EXCEPT ![t] = NoModel]
    /\ orig' = [orig EXCEPT ![t] = NoModel]
    /\ file0' = [file0 EXCEPT ![t] = files[PathOf(t)]]
    /\ result' = [result EXCEPT ![t] = NoResult]
    /\ fault' = [fault EXCEPT ![t] = "none"]
    /\ log' = [log EXCEPT ![t] = <<>>]
    /\ UNCHANGED <<files, file, encoded, nn, saved>>

\* let file = File::open(file_path).map_err(ErrorKind::IO)?;
LoadOpen(t) ==
    /\ pc[t] = "open"
    /\ log' = [log EXCEPT ![t] = Append(@, "open")]
    /\ \/ /\ files[PathOf(t)].exists
          /\ file' = [file EXCEPT ![t] = "open"]
          /\ pc' = [pc EXCEPT ![t] = "decode"]
          /\ UNCHANGED <<result, fault>>
       \/ /\ fault' = [fault EXCEPT ![t] = "open"]
          /\ result' = [result EXCEPT ![t] = ErrIO]
          /\ pc' = [pc EXCEPT ![t] = "idle"]
          /\ UNCHANGED file
    /\ UNCHANGED <<files, op, kind, obj, encoded, nn, orig, file0, saved>>

\* let mut buf = BufReader::new(file);
\* let mut nn: T = deserialize_from(&mut buf, Infinite).map_err(ErrorKind::Encoding)?;
\* a read that fails reaches the caller through bincode's error, mapped the same way
LoadDecode(t) ==
    /\ pc[t] = "decode"
    /\ log' = [log EXCEPT ![t] = Append(@, "decode")]
    /\ \/ LET r == deserialize_from(kind[t], files[PathOf(t)].data) IN
          IF r.ok
          THEN /\ nn' = [nn EXCEPT ![t] = r.val]
               /\ pc' = [pc EXCEPT ![t] = "after"]
               /\ UNCHANGED <<result, fault, file>>
          ELSE /\ result' = [result EXCEPT ![t] = ErrEncoding]
               /\ file' = [file EXCEPT ![t] = DropFile(@)]
               /\ pc' = [pc EXCEPT ![t] = "idle"]
               /\ UNCHANGED <<nn, fault>>
       \/ /\ fault' = [fault EXCEPT ![t] = "read"]
          /\ result' = [result EXCEPT ![t] = ErrEncoding]
          /\ file' = [file EXCEPT ![t] = DropFile(@)]
          /\ pc' = [pc EXCEPT ![t] = "idle"]
          /\ UNCHANGED nn
    /\ UNCHANGED <<files, op, kind, obj, encoded, orig, file0, saved>>

\* nn.after();
LoadAfter(t) ==
    /\ pc[t] = "after"
    /\ log' = [log EXCEPT ![t] = Append(@, "after")]
    /\ nn' = [nn EXCEPT ![t] = after(@)]
    /\ pc' = [pc EXCEPT ![t] = "return"]
    /\ UNCHANGED <<files, op, kind, obj, file, encoded, result, fault, orig, file0, saved>>

\* Ok(nn)
LoadReturn(t) ==
    /\ pc[t] = "return"
    /\ op[t] = "load"
    /\ log' = [log EXCEPT ![t] = Append(@, "return")]
    /\ result' = [result EXCEPT ![t] = Ok(nn[t])]
    /\ nn' = [nn EXCEPT ![t] = NoModel]
    /\ file' = [file EXCEPT ![t] = DropFile(@)]
    /\ pc' = [pc EXCEPT ![t] = "idle"]
    /\ UNCHANGED <<files, op, kind, obj, encoded, fault, orig, file0, saved>>

\* ------------------------------------------------------------ specifications
Step(t) ==
    \/ SaveCreate(t)
    \/ SaveBefore(t)
    \/ SaveSerialize(t)
    \/ SaveWrite(t)
    \/ SaveReturn(t)
    \/ LoadOpen(t)
    \/ LoadDecode(t)
    \/ LoadAfter(t)
    \/ LoadReturn(t)

\* one caller, one call at a time
Next ==
    /\ \/ \E m \in Models : SaveCall(1, m)
       \/ \E T \in LoadKinds : LoadCall(1, T)
       \/ Step(1)
    /\ UNCHANGED overlap

Spec == Init /\ [][Next]_vars

\* two callers on two different paths, their calls interleaved
\* a call that starts has met no other call yet; a step taken while every
\* thread is inside a call marks the calls as overlapping
Overlap(t) ==
    [u \in Threads |->
        IF u = t /\ pc[t] = "idle" THEN FALSE
        ELSE IF \A v \in Threads : pc[v] # "idle" THEN TRUE
        ELSE overlap[u]]

NextPar ==
    \E t \in Threads :
        /\ \/ \E m \in ParModels : SaveCall(t, m)
           \/ \E T \in ParKinds : LoadCall(t, T)
           \/ Step(t)
        /\ overlap' = Overlap(t)

SpecPar == Init /\ [][NextPar]_vars

\* ------------------------------------------------------------ properties
\* the last call of thread t has returned
Done(t) == pc[t] = "idle" /\ result[t].kind # "none"
\* position of the first event e in a log, 0 when it is not there
Pos(l, e) == IF \E i \in 1..Len(l) : l[i] = e
             THEN CHOOSE i \in 1..Len(l) : l[i] = e /\ \A j \in 1..(i - 1) : l[j] # e
             ELSE 0
Count(l, e) == Cardinality({i \in 1..Len(l) : l[i] = e})
IsPrefix(a, b) == Len(a) <= Len(b) /\ SubSeq(b, 1, Len(a)) = a
IsStrictPrefix(a, b) == Len(a) < Len(b) /\ IsPrefix(a, b)
\* the bytes save writes for a model the caller passes
Persisted(m) == serialize(before(m)).bytes
\* the value a load of type T makes of those bytes
Reloaded(T, m) == after(deserialize_from(T, Persisted(m)).val)

\* C1 -- round trip: a load without an environment failure, of the type and from
\* the path of the last save that returned Ok, returns Ok(m') with
\* m' = after(decode(encode(before(m)))), and m' has m's parameters, the
\* post-load marker and the rebuilt cache.
C1_RoundTrip ==
    \A t \in Threads :
        (Done(t) /\ op[t] = "load" /\ fault[t] = "none"
            /\ saved[PathOf(t)] # NoModel /\ saved[PathOf(t)].kind = kind[t])
        => LET m == saved[PathOf(t)] IN
           /\ result[t] = Ok(Reloaded(kind[t], m))
           /\ result[t].val.kind = m.kind
           /\ result[t].val.params = m.params
           /\ result[t].val.cache = m.cache
           /\ result[t].val.marker = PostLoad
C1_Witness ==
    \E t \in Threads :
        /\ Done(t) /\ op[t] = "load" /\ result[t].kind = "Ok"
        /\ saved[PathOf(t)].kind = kind[t]
        /\ saved[PathOf(t)].params # <<>>
        /\ saved[PathOf(t)].marker = Fresh
        /\ result[t].val.marker = PostLoad

\* C2 -- hook ordering: a save that has reached serialize has run before exactly
\* once, ahead of serialize and of the write, and the file holds no byte until
\* before has run; a load that returned Ok has run after exactly once, behind
\* decode and ahead of the return.
C2_HookOrdering ==
    \A t \in Threads :
        /\ (op[t] = "save" /\ Pos(log[t], "serialize") > 0)
            => /\ Count(log[t], "before") = 1
               /\ Pos(log[t], "before") < Pos(log[t], "serialize")
        /\ (op[t] = "save" /\ Pos(log[t], "write") > 0)
            => /\ Count(log[t], "before") = 1
               /\ Pos(log[t], "before") < Pos(log[t], "write")
        /\ (op[t] = "save" /\ file[t] = "open" /\ files[PathOf(t)].data # <<>>)
            => Pos(log[t], "before") > 0
        /\ (op[t] = "load" /\ result[t].kind = "Ok")
            => /\ Count(log[t], "after") = 1
               /\ 0 < Pos(log[t], "decode")
               /\ Pos(log[t], "decode") < Pos(log[t], "after")
               /\ Pos(log[t], "after") < Pos(log[t], "return")
C2_Witness ==
    \E t \in Threads :
        /\ Done(t) /\ op[t] = "load" /\ result[t].kind = "Ok"
        /\ log[t] = <<"open", "decode", "after", "return">>
        /\ saved[PathOf(t)] # NoModel

\* C3 -- write atomicity boundary: a save whose encoding fails returns an
\* Encoding error, has written nothing, and leaves the destination existing and
\* empty whatever it held before the call.
C3_EncodingFailure ==
    \A t \in Threads :
        (Done(t) /\ op[t] = "save" /\ Pos(log[t], "serialize") > 0 /\ ~serialize(obj[t]).ok)
        => /\ result[t] = ErrEncoding
           /\ Pos(log[t], "write") = 0
           /\ files[PathOf(t)] = FileOf(<<>>)
C3_Witness ==
    \E t \in Threads :
        /\ Done(t) /\ op[t] = "save" /\ result[t] = ErrEncoding
        /\ file0[t].exists /\ file0[t].data # <<>>
        /\ files[PathOf(t)] = FileOf(<<>>)

\* ---- load: which error
\* the call got past File::open
Opened(t) == Pos(log[t], "decode") > 0
\* bs begins with the layout of a value of type T: every field is there
WellFormed(T, bs) ==
    CASE T = "FeedForward" ->
            /\ Len(bs) >= U64Bytes + 1
            /\ \A i \in 2..U64Bytes : bs[i] = 0
            /\ Len(bs) >= U64Bytes + bs[1] + 1
      [] T = "Legacy" ->
            /\ Len(bs) >= U64Bytes + 1
            /\ \A i \in 3..(U64Bytes + 1) : bs[i] = 0
            /\ Len(bs) >= U64Bytes + bs[2] + 1
      [] OTHER -> FALSE
\* bs is what is left of the encoding of a value of type T cut short
Truncated(T, bs) ==
    \E m \in Models : m.kind = T /\ IsStrictPrefix(bs, Persisted(m))
\* the file holds exactly what a save of a value of another type wrote
OtherType(t) ==
    /\ saved[PathOf(t)] # NoModel
    /\ saved[PathOf(t)].kind # kind[t]

\* C4 as claimed -- a load whose source cannot be opened returns an IO error; a
\* load whose source opens and holds malformed or truncated bytes, or bytes
\* encoded from another type, returns an Encoding error; neither returns a model.
C4_Claimed ==
    \A t \in Threads :
        (Done(t) /\ op[t] = "load")
        => /\ ~Opened(t) => result[t] = ErrIO
           /\ (Opened(t) /\ (~WellFormed(kind[t], file0[t].data)
                                \/ Truncated(kind[t], file0[t].data)
                                \/ OtherType(t)))
                => result[t] = ErrEncoding

\* C4 as amended -- a load whose source cannot be opened returns an IO error and
\* no model; a load whose source opens and holds bytes that are not the layout
\* of the requested type (malformed, truncated, or written for another type and
\* not fitting this one) returns an Encoding error and no model; a load returns
\* Ok only of bytes that fit the requested type, whatever type wrote them.
C4_LoadErrors ==
    \A t \in Threads :
        (Done(t) /\ op[t] = "load")
        => /\ ~Opened(t) => result[t] = ErrIO
           /\ (Opened(t) /\ (~WellFormed(kind[t], file0[t].data)
                                \/ Truncated(kind[t], file0[t].data)))
                => result[t] = ErrEncoding
           /\ result[t].kind = "Ok" => WellFormed(kind[t], file0[t].data)
           /\ result[t].kind # "Ok" => result[t].val = NoModel
C4_Witness ==
    \E t \in Threads :
        /\ Done(t) /\ op[t] = "load" /\ Opened(t) /\ fault[t] = "none"
        /\ OtherType(t)
        /\ ~WellFormed(kind[t], file0[t].data)
        /\ result[t] = ErrEncoding

\* C5 -- I/O failure taxonomy: a call whose read or write failed after the file
\* was opened returns an IO error.
C5_IOFailureKind ==
    \A t \in Threads :
        (Done(t) /\ fault[t] \in {"read", "write"}) => result[t] = ErrIO

\* C6 -- a save whose File::create fails returns an IO error and has run no
\* further statement: no hook, the caller's model as passed, no buffer, the
\* destination as the call found it.
C6_CreateFailure ==
    \A t \in Threads :
        (Done(t) /\ op[t] = "save" /\ fault[t] = "create")
        => /\ result[t] = ErrIO
           /\ log[t] = <<"create">>
           /\ obj[t] = orig[t]
           /\ encoded[t] = <<>>
           /\ files[PathOf(t)] = file0[t]
C6_Witness ==
    \E t \in Threads :
        /\ Done(t) /\ op[t] = "save" /\ fault[t] = "create"
        /\ file0[t].data # <<>>
        /\ obj[t] # before(obj[t])

\* C7 -- save overwrites: while the last save to a path is one that returned Ok,
\* the file holds exactly the encoding of that save's model, nothing of what was
\* there before, and a load of that type returns that model's parameters.
C7_SaveOverwrites ==
    /\ \A p \in Paths :
          saved[p] # NoModel => files[p] = FileOf(Persisted(saved[p]))
    /\ \A t \in Threads :
          (Done(t) /\ op[t] = "load" /\ result[t].kind = "Ok"
              /\ saved[PathOf(t)] # NoModel /\ saved[PathOf(t)].kind = kind[t])
          => /\ result[t].val.params = saved[PathOf(t)].params
             /\ result[t].val.kind = saved[PathOf(t)].kind
\* a save returned Ok over a longer file that an earlier save had written
C7_Witness ==
    \E t \in Threads :
        /\ Done(t) /\ op[t] = "save" /\ result[t].kind = "Ok"
        /\ saved[PathOf(t)] = orig[t]
        /\ \E m \in Models : file0[t] = FileOf(Persisted(m))
        /\ Len(file0[t].data) > Len(files[PathOf(t)].data)

\* C9 -- scoped release: a thread that is in no call holds no open file handle,
\* no byte buffer and no decoded value, on whichever path the call returned.
C9_ScopedRelease ==
    \A t \in Threads :
        pc[t] = "idle" => (file[t] = "closed" /\ encoded[t] = <<>> /\ nn[t] = NoModel)
C9_Witness ==
    \E t \in Threads :
        /\ Done(t) /\ op[t] = "save" /\ fault[t] = "write"
        /\ file[t] = "closed" /\ encoded[t] = <<>>
        /\ files[PathOf(t)].data # <<>>

\* C10 -- a failed save is no no-op on the model: a save that got past
\* File::create and returned an error has applied before exactly once, and the
\* caller holds the normalized model.
C10_FailedSaveMutates ==
    \A t \in Threads :
        (Done(t) /\ op[t] = "save" /\ result[t].kind \in {"IO", "Encoding"}
            /\ fault[t] # "create")
        => /\ Count(log[t], "before") = 1
           /\ obj[t] = before(orig[t])
           /\ obj[t] # orig[t]
C10_Witness ==
    \E t \in Threads :
        /\ Done(t) /\ op[t] = "save" /\ result[t] = ErrEncoding
        /\ obj[t].marker = PreSave /\ orig[t].marker = Fresh

\* ---- two threads
\* the outcome of thread t's call is the one the call has when it runs alone:
\* a function of its arguments, of the file it found and of the failure it met
Alone(t) ==
    IF op[t] = "save"
    THEN LET m == orig[t]
             r == serialize(before(m))
             f == files[PathOf(t)]
         IN CASE fault[t] = "create" ->
                    result[t] = ErrIO /\ f = file0[t] /\ obj[t] = m
              [] fault[t] # "create" /\ ~r.ok ->
                    result[t] = ErrEncoding /\ f = FileOf(<<>>) /\ obj[t] = before(m)
              [] fault[t] = "write" /\ r.ok ->
                    /\ result[t] = ErrIO /\ obj[t] = before(m)
                    /\ f.exists /\ IsStrictPrefix(f.data, r.bytes)
              [] OTHER ->
                    result[t] = Ok(NoModel) /\ f = FileOf(r.bytes) /\ obj[t] = before(m)
    ELSE LET d == deserialize_from(kind[t], file0[t].data) IN
         /\ files[PathOf(t)] = file0[t]
         /\ CASE fault[t] = "open" -> result[t] = ErrIO
              [] fault[t] = "read" -> result[t] = ErrEncoding
              [] OTHER -> /\ file0[t].exists
                          /\ result[t] = IF d.ok THEN Ok(after(d.val)) ELSE ErrEncoding

\* C8 -- independence across paths: with the threads' calls interleaved on
\* different paths, every call returns what it returns alone and leaves its
\* file and its model as it does alone.
C8_Independent == \A t \in Threads : Done(t) => Alone(t)
\* a save and a load that overlapped have both returned Ok
C8_Witness ==
    \E t, u \in Threads :
        /\ t # u /\ Done(t) /\ Done(u) /\ overlap[t] /\ overlap[u]
        /\ op[t] = "save" /\ result[t].kind = "Ok"
        /\ op[u] = "load" /\ result[u].kind = "Ok"

====
